---- MODULE Spec2Model ----
(***************************************************************************)
(* A model of acorn's logging database (acorn/logging/database.py): the    *)
(* process-wide tracker indices, the registry of open task databases, the  *)
(* TaskDB record / load / save methods and cleanup(), over a small file    *)
(* system and a clock.                                                     *)
(*                                                                         *)
(* Conventions                                                             *)
(*   - a python object is its address id(obj); what tracker() and          *)
(*     describe() read of it is TypeOf(addr).  An Instance keeps a         *)
(*     reference to its object, so a tracked object stays alive and its    *)
(*     address is never reused.                                            *)
(*   - str(uuid4()) is the next unused token: the n-th Instance created    *)
(*     gets uuid n.  Uuid 0 is a well-formed uuid string that this process *)
(*     never minted (one that came from elsewhere).                        *)
(*   - None is NoDir / NoTime / NoOpt according to the type of the field.  *)
(*   - a path is <<directory, file name>>.                                 *)
(*   - the clock counts ticks of 30 seconds.                               *)
(***************************************************************************)
EXTENDS Integers, Sequences, FiniteSets, TLC

VARIABLES
    objs,       \* the python objects: address -> how often the object was changed
    oids,       \* database.py:7   id(obj) -> Instance
    uuids,      \* database.py:11  uuid string -> Instance
    dbs,        \* database.py:15  (project, task) -> TaskDB
    project,    \* database.py:20
    task,       \* database.py:23
    writeable,  \* database.py:26
    dbdir,      \* database.py:32
    settings,   \* config.py: the [database] section of acorn.cfg
    now,        \* time.time(), in ticks
    dirs,       \* the directories that exist
    files,      \* path -> file content
    hist,       \* history: per open database, what load() installed, the
                \* record calls made on it since, the error of its latest
                \* write if that failed, and whether its latest write
                \* succeeded after one that failed
    fresh,      \* the TaskDB last built by calling the constructor directly
    last        \* the last operation and what it did

vars == <<objs, oids, uuids, dbs, project, task, writeable, dbdir, settings, now,
          dirs, files, hist, fresh, last>>

----------------------------------------------------------------------------
(* Bounds *)

MaxObjs == 2

MaxRecords == 3

MaxTime == 6

----------------------------------------------------------------------------
(* Values *)

EmptyMap == [x \in {} |-> 0]

\* d[k] = v
Put(f, k, v) == [x \in DOMAIN f \cup {k} |-> IF x = k THEN v ELSE f[x]]

NoDir == ""

NoTime == -1

NoOpt == -1

NoKey == <<"", "">>

semitrack == {"list", "dict", "set", "tuple"}

\* bool is a subclass of int, unicode and str of basestring.
untracked == {"str", "unicode", "int", "long", "float", "complex", "bool"}

\* The python objects handed to tracker(), by address.  type is the name of
\* type(obj); for a list, tuple, set or dict, elems are its elements when they
\* are all numbers and allprim says whether every element is a number or a
\* text (for a dict: every key); keys is the kind of dict key that is neither;
\* name is __name__ and varnames is func_code.co_varnames; ver counts the
\* changes made to the object in place.
Obj(type, allprim, elems, keys, name, varnames) ==
    [type |-> type, allprim |-> allprim, elems |-> elems, keys |-> keys,
     name |-> name, varnames |-> varnames, ver |-> 0]

\* The objects as they are first seen:
\*   an ndarray a, {(0, 1): a}, {None: a}, [a, 1], 5, [1, 2, 3, 4, 5], (),
\*   def f(a, b), lambda x: x, a bound method m, the type ndarray, numpy.add
ObjTable ==
    << Obj("ndarray", FALSE, <<>>, "", "", <<>>),
       Obj("dict", FALSE, <<>>, "tuple", "", <<>>),
       Obj("dict", FALSE, <<>>, "none", "", <<>>),
       Obj("list", FALSE, <<>>, "", "", <<>>),
       Obj("int", FALSE, <<>>, "", "", <<>>),
       Obj("list", TRUE, <<1, 2, 3, 4, 5>>, "", "", <<>>),
       Obj("tuple", TRUE, <<>>, "", "", <<>>),
       Obj("function", FALSE, <<>>, "", "f", <<"a", "b">>),
       Obj("function", FALSE, <<>>, "", "<lambda>", <<"x">>),
       Obj("instancemethod", FALSE, <<>>, "", "m", <<"self">>),
       Obj("type", FALSE, <<>>, "", "ndarray", <<>>),
       Obj("ufunc", FALSE, <<>>, "", "add", <<>>) >>

\* The types whose objects can be changed in place.
Mutable == {"ndarray", "list", "dict", "set"}

\* An object after a change in place: a list or dict whose elements (keys)
\* were not all numbers or texts now holds the numbers 1, 2, 3, and one that
\* held only numbers now holds an object; an ndarray has other contents.
Changed(obj) ==
    IF obj.type \in semitrack
    THEN IF obj.allprim
         THEN [obj EXCEPT !.allprim = FALSE, !.elems = <<>>,
                          !.keys = IF obj.type = "dict" THEN "none" ELSE "",
                          !.ver = 1 - @]
         ELSE [obj EXCEPT !.allprim = TRUE, !.elems = <<1, 2, 3>>, !.keys = "",
                          !.ver = 1 - @]
    ELSE [obj EXCEPT !.ver = 1 - @]

Original(o) == ObjTable[((o - 1) % Len(ObjTable)) + 1]

\* The object at address o as it is now.
TypeOf(o) == IF objs[o] = 0 THEN Original(o) ELSE Changed(Original(o))

\* The objects of the database specifications, and those of the tracker's.
Objs == 1..MaxObjs

AllObjs == 1..Len(ObjTable)

\* A rendered value of an entry: what the wrapping layer puts in "returns" and
\* in "args" after tracker(): None, a literal, a text, or the uuid of an
\* Instance.
None == [k |-> "none", v |-> 0]

IntV(n) == [k |-> "int", v |-> n]

StrV(n) == [k |-> "str", v |-> n]

UuidV(u) == [k |-> "uuid", v |-> u]

ListV(n) == [k |-> "list", v |-> n]

\* uuid.UUID(text): the parsed object, which is not a string.
UUID(val) == [k |-> "UUID", v |-> val.v]

Entry(ret, pos, kw) == [returns |-> ret, args |-> ("__" :> pos) @@ kw]

\* The uuids the recorded entries refer to: one never minted, and the first
\* one minted.
RefUuids == {0, 1}

\* The entries that carry a uuid: as the returned value, as a positional
\* argument, as a keyword argument.
UuidEntries ==
    {Entry(UuidV(u), <<>>, EmptyMap) : u \in RefUuids}
    \cup {Entry(None, <<UuidV(1)>>, EmptyMap),
          Entry(None, <<>>, "x" :> UuidV(1))}

\* Entries without a uuid: None, numbers, texts and lists as returned value and
\* as arguments.
ValueEntries ==
    {Entry(None, <<StrV(1), IntV(5)>>, EmptyMap),
     Entry(IntV(5), <<ListV(1)>>, "x" :> StrV(2)),
     Entry(StrV(1), <<>>, "x" :> ListV(1)),
     Entry(ListV(1), <<IntV(5)>>, EmptyMap)}

EKeys == {"mymodule.myfunc", "numpy.sum"}

TaskPairs == {<<"default", "default">>, <<"p.t", "u">>, <<"p", "t.u">>}

Dirs == {"/d1", "/d2"}

----------------------------------------------------------------------------
(* tracker() and Instance *)

NoInstance == [pid |-> 0, uuid |-> 0]

\* str(uuid4()): a token no Instance of this process has.
uuid4 == Cardinality(DOMAIN uuids) + 1

\* Instance.__init__
Instance(pid) == [pid |-> pid, uuid |-> uuid4]

Range(f) == {f[x] : x \in DOMAIN f}

min(seq) == CHOOSE x \in Range(seq) : \A y \in Range(seq) : x <= y

max(seq) == CHOOSE x \in Range(seq) : \A y \in Range(seq) : x >= y

RECURSIVE join(_, _)
join(sep, seq) ==
    IF seq = <<>> THEN ""
    ELSE IF Len(seq) = 1 THEN seq[1]
    ELSE seq[1] \o sep \o join(sep, Tail(seq))

\* "{0}".format(type(obj))
TypeRepr(o) == "<type '" \o TypeOf(o).type \o "'>"

\* tracker()'s return value: a text, None, or an Instance (the one of oids, or a
\* new one).
Ret(kind, text, inst) == [kind |-> kind, text |-> text, inst |-> inst]

\* A lookup that makes a new Instance on every call.
tracked_always_new(obj) == Instance(obj)

\* The Instance of an object that is tracked: the one oids holds, or a new one.
tracked(obj) == IF obj \in DOMAIN oids THEN oids[obj] ELSE Instance(obj)

tracker_return(obj) ==
    LET t == TypeOf(obj) IN
    IF t.type \in semitrack /\ t.allprim
    THEN IF Len(t.elems) > 0
         THEN Ret("text", TypeRepr(obj) \o " len=" \o ToString(Len(t.elems))
                          \o " min=" \o ToString(min(t.elems))
                          \o " max=" \o ToString(max(t.elems)), NoInstance)
         ELSE Ret("text", TypeRepr(obj) \o " len=" \o ToString(Len(t.elems)),
                  NoInstance)
    ELSE IF t.type = "type" THEN Ret("text", t.name, NoInstance)
    ELSE IF t.type = "function"
         THEN Ret("text", "lambda (" \o join(", ", t.varnames) \o ")", NoInstance)
    ELSE IF t.type \in {"function", "instancemethod"}
         THEN Ret("text", t.name, NoInstance)
    ELSE IF t.type = "ufunc" THEN Ret("text", "numpy." \o t.name, NoInstance)
    ELSE IF t.type \notin untracked
         THEN Ret("Instance", "", tracked(obj))
    ELSE Ret("None", "", NoInstance)

\* Instance.describe(): a list of descriptions for a list, tuple or set, a dict
\* with the object's own keys for a dict, else what the descriptors say; each
\* of the object as it is when describe() is called.
describe(inst) ==
    LET t == TypeOf(inst.pid) IN
    IF t.type \in semitrack
    THEN IF t.type \in {"list", "tuple", "set"}
         THEN [t |-> "seq", keys |-> "", of |-> inst.pid, ver |-> t.ver]
         ELSE [t |-> "map", keys |-> t.keys, of |-> inst.pid, ver |-> t.ver]
    ELSE [t |-> "leaf", keys |-> "", of |-> inst.pid, ver |-> t.ver]

----------------------------------------------------------------------------
(* json *)

\* json.dump raises TypeError for a dict key that is not a text, a number, a
\* bool or None.
json_serializable(entities_, uuids_) ==
    \A u \in DOMAIN uuids_ : ~(uuids_[u].t = "map" /\ uuids_[u].keys = "tuple")

\* What json.load returns for what json.dump wrote: the key None is read back
\* as the text "null".
json_value(desc) ==
    IF desc.t = "map" /\ desc.keys = "none" THEN [desc EXCEPT !.keys = "null"]
    ELSE desc

NoFile == [st |-> "absent", entities |-> EmptyMap, uuids |-> EmptyMap]

\* The file after open(dbpath, 'w') and a json.dump that raised part-way.
PartialFile == [st |-> "partial", entities |-> EmptyMap, uuids |-> EmptyMap]

JsonFile(entities_, uuids_) ==
    [st |-> "json", entities |-> entities_,
     uuids |-> [u \in DOMAIN uuids_ |-> json_value(uuids_[u])]]

----------------------------------------------------------------------------
(* TaskDB *)

\* `key in d` for a dict d whose keys are uuid strings: a text is found when it
\* is one of the keys; a number, None or a uuid.UUID object equals no text.
KeyIn(key, d) == key.k = "uuid" /\ key.v \in DOMAIN d

\* A list cannot be hashed: `key in d` raises TypeError.
Unhashable(key) == key.k = "list"

\* isinstance(x, str)
IsStr(x) == x.k \in {"str", "uuid"}

\* UUID(x) does not raise ValueError.
ParsesAsUUID(x) == x.k = "uuid"

\* A _log_uuid that describes the Instance on every call.
_log_uuid_every_time(self_uuids, uuid) ==
    IF KeyIn(uuid, uuids)
    THEN Put(self_uuids, uuid.v, describe(uuids[uuid.v]))
    ELSE self_uuids

\* A _log_uuid with its first test the wrong way round.
_log_uuid_if_present(self_uuids, uuid) ==
    IF KeyIn(uuid, self_uuids) /\ KeyIn(uuid, uuids)
    THEN self_uuids @@ (uuid.v :> describe(uuids[uuid.v]))
    ELSE self_uuids

\* TaskDB._log_uuid: self.uuids afterwards.
_log_uuid(self_uuids, uuid) ==
    IF ~KeyIn(uuid, self_uuids) /\ KeyIn(uuid, uuids)
    THEN self_uuids @@ (uuid.v :> describe(uuids[uuid.v]))
    ELSE self_uuids

\* The loop over entry["args"]["__"].
RECURSIVE log_positional(_, _)
log_positional(self_uuids, largs) ==
    IF largs = <<>> THEN self_uuids
    ELSE LET larg == Head(largs) IN
         IF ~IsStr(larg) THEN log_positional(self_uuids, Tail(largs))
         ELSE IF ParsesAsUUID(larg)
              THEN log_positional(_log_uuid(self_uuids, UUID(larg)), Tail(largs))
              ELSE log_positional(self_uuids, Tail(largs))

\* The loop over entry["args"].items().
RECURSIVE log_keyword(_, _, _)
log_keyword(self_uuids, args, keys) ==
    IF keys = {} THEN self_uuids
    ELSE LET key == CHOOSE x \in keys : TRUE
             karg == args[key]
             rest == keys \ {key}
         IN  IF key = "__" THEN log_keyword(self_uuids, args, rest)
             ELSE IF ~IsStr(karg) THEN log_keyword(self_uuids, args, rest)
             ELSE IF ParsesAsUUID(karg)
                  THEN log_keyword(_log_uuid(self_uuids, UUID(karg)), args, rest)
                  ELSE log_keyword(self_uuids, args, rest)

\* A record that starts the list of the key anew on every call.
TaskDB_record_replacing(self, ekey, entry) ==
    [db |-> [self EXCEPT !.entities =
                [k \in DOMAIN self.entities \cup {ekey} |->
                    IF k = ekey THEN <<entry>> ELSE self.entities[k]]],
     raised |-> ""]

\* TaskDB.record: the database afterwards, and the exception that left it.
TaskDB_record(self, ekey, entry) ==
    LET entities1 == IF ekey \in DOMAIN self.entities
                     THEN [self.entities EXCEPT ![ekey] = Append(@, entry)]
                     ELSE self.entities @@ (ekey :> <<entry>>)
        appended == [self EXCEPT !.entities = entities1]
    IN  IF entry.returns # None /\ Unhashable(entry.returns)
        THEN [db |-> appended, raised |-> "TypeError"]
        ELSE LET uuids1 == IF entry.returns # None
                           THEN _log_uuid(self.uuids, entry.returns)
                           ELSE self.uuids
                 uuids2 == log_positional(uuids1, entry.args["__"])
                 uuids3 == log_keyword(uuids2, entry.args, DOMAIN entry.args)
             IN  [db |-> [appended EXCEPT !.uuids = uuids3], raised |-> ""]

\* TaskDB._get_option("savefreq", 2, int)
_get_option(default) ==
    IF settings.savefreq # NoOpt THEN settings.savefreq ELSE default

\* A _dbdir that falls back on a folder of its own when none is configured.
_dbdir_with_fallback ==
    LET d == IF dbdir # NoDir THEN dbdir
             ELSE IF settings.folder # NoDir THEN settings.folder ELSE "/d1"
    IN  [raised |-> "", dbdir |-> d, mkdir |-> IF d \in dirs THEN {} ELSE {d}]

\* _dbdir(): the directory (the global dbdir afterwards), the directory it
\* made, and the exception it raised.
_dbdir ==
    IF dbdir = NoDir /\ settings.folder = NoDir
    THEN [raised |-> "ValueError", dbdir |-> dbdir, mkdir |-> {}]
    ELSE LET d == IF dbdir = NoDir THEN settings.folder ELSE dbdir
         IN  [raised |-> "", dbdir |-> d,
              mkdir |-> IF d \in dirs THEN {} ELSE {d}]

\* "{}.{}.json".format(project, task)
FileName(project_, task_) == project_ \o "." \o task_ \o ".json"

NoDB == [entities |-> EmptyMap, uuids |-> EmptyMap, dbpath |-> <<"", "">>,
         lastsave |-> NoTime]

\* TaskDB.load(): self with what the file holds; json.load raises ValueError
\* on a file that is not whole.
TaskDB_load(self) ==
    LET f == files[self.dbpath] IN
    IF f.st = "absent" THEN [db |-> self, raised |-> ""]
    ELSE IF f.st = "partial" THEN [db |-> self, raised |-> "ValueError"]
    ELSE [db |-> [self EXCEPT !.entities = f.entities, !.uuids = f.uuids],
          raised |-> ""]

\* TaskDB.__init__ with dbdir=None: the new database, the global dbdir and the
\* directory made on the way, and the exception raised.
TaskDB_init ==
    LET d == _dbdir IN
    IF d.raised # ""
    THEN [db |-> NoDB, raised |-> d.raised, dbdir |-> d.dbdir, mkdir |-> d.mkdir]
    ELSE LET self == [entities |-> EmptyMap, uuids |-> EmptyMap,
                      dbpath |-> <<d.dbdir, FileName(project, task)>>,
                      lastsave |-> NoTime]
             l == TaskDB_load(self)
         IN  [db |-> l.db, raised |-> l.raised, dbdir |-> d.dbdir,
              mkdir |-> d.mkdir]

\* int(delta.total_seconds() / 60) for two readings of the clock
elapsed_minutes(later, earlier) == ((later - earlier) * 30) \div 60

\* An elapsed time that is not measured.
save_elapsed_unmeasured(self) ==
    IF self.lastsave # NoTime THEN 0 ELSE _get_option(2) + 1

\* save()'s local variable elapsed.
save_elapsed(self) ==
    IF self.lastsave # NoTime THEN elapsed_minutes(now, self.lastsave)
    ELSE _get_option(2) + 1

\* A throttle that lets a save through when exactly savefreq minutes passed.
save_due_at_savefreq(self, force) ==
    save_elapsed(self) >= _get_option(2) \/ force

\* A throttle that force does not override.
save_due_unforced(self, force) == save_elapsed(self) > _get_option(2)

\* Whether save() goes past the throttle.
save_due(self, force) == save_elapsed(self) > _get_option(2) \/ force

\* A save that empties the database in memory when its write fails.
TaskDB_save_dropping(self, force, dirs_, files_) ==
    LET saved == [self EXCEPT !.lastsave = now]
        lost == [saved EXCEPT !.entities = EmptyMap, !.uuids = EmptyMap]
        Done(db, fs, opened, error) ==
            [db |-> db, files |-> fs, opened |-> opened, error |-> error,
             elapsed |-> save_elapsed(self)]
    IN
    IF ~save_due(self, force) THEN Done(self, files_, FALSE, "")
    ELSE IF ~writeable THEN Done(saved, files_, FALSE, "")
    ELSE IF self.dbpath[1] \notin dirs_ THEN Done(lost, files_, FALSE, "IOError")
    ELSE IF ~json_serializable(self.entities, self.uuids)
    THEN Done(lost, [files_ EXCEPT ![self.dbpath] = PartialFile], TRUE,
              "TypeError")
    ELSE Done(saved,
              [files_ EXCEPT ![self.dbpath] = JsonFile(self.entities, self.uuids)],
              TRUE, "")

\* TaskDB.save with the directories dirs_ and the files files_ in place: the
\* database and the files afterwards, and whether the file was opened for
\* writing.  An error of open() or of json.dump is caught inside save.
TaskDB_save(self, force, dirs_, files_) ==
    LET saved == [self EXCEPT !.lastsave = now]
        Done(db, fs, opened, error) ==
            [db |-> db, files |-> fs, opened |-> opened, error |-> error,
             elapsed |-> save_elapsed(self)]
    IN
    IF ~save_due(self, force) THEN Done(self, files_, FALSE, "")
    ELSE IF ~writeable THEN Done(saved, files_, FALSE, "")
    ELSE IF self.dbpath[1] \notin dirs_ THEN Done(saved, files_, FALSE, "IOError")
    ELSE IF ~json_serializable(self.entities, self.uuids)
    THEN Done(saved, [files_ EXCEPT ![self.dbpath] = PartialFile], TRUE,
              "TypeError")
    ELSE Done(saved,
              [files_ EXCEPT ![self.dbpath] = JsonFile(self.entities, self.uuids)],
              TRUE, "")

----------------------------------------------------------------------------
(* The state after import *)

Paths == {<<d, FileName(pt[1], pt[2])>> : d \in Dirs, pt \in TaskPairs}

NoLast ==
    [op |-> "", key |-> NoKey, ekey |-> "", force |-> FALSE, opened |-> {},
     mkdir |-> {}, raised |-> "", error |-> "", elapsed |-> NoTime,
     ret |-> Ret("None", "", NoInstance),
     success |-> <<>>, failed |-> {}, okay |-> {}]

Did(op) == [NoLast EXCEPT !.op = op]

NoHist == [loaded |-> EmptyMap, calls |-> EmptyMap, unsaved |-> "",
           retried |-> FALSE]

\* The file an earlier run of the program left for project "default", task
\* "default" in /d1: one entry, and the description of the object it returned.
PriorPath == <<"/d1", FileName("default", "default")>>

PriorFile ==
    JsonFile("numpy.sum" :> <<Entry(UuidV(0), <<IntV(5)>>, EmptyMap)>>,
             0 :> [t |-> "leaf", keys |-> "", of |-> 0, ver |-> 0])

\* acorn.cfg may set the folder and the save frequency, and an earlier run may
\* have left a database file.
Init ==
    /\ objs = [o \in AllObjs |-> 0]
    /\ oids = EmptyMap
    /\ uuids = EmptyMap
    /\ dbs = EmptyMap
    /\ project = "default"
    /\ task = "default"
    /\ writeable = TRUE
    /\ dbdir = NoDir
    /\ settings \in [folder : {NoDir, "/d1"}, savefreq : {NoOpt, 1}]
    /\ now = 0
    /\ \E prior \in BOOLEAN :
          /\ dirs = IF prior THEN {"/d1"} ELSE {}
          /\ files = [p \in Paths |->
                        IF prior /\ p = PriorPath THEN PriorFile ELSE NoFile]
    /\ hist = EmptyMap
    /\ fresh = [db |-> NoDB, raised |-> ""]
    /\ last = NoLast

----------------------------------------------------------------------------
(* Operations *)

set_dbdir(dbdir_) ==
    /\ dbdir' = dbdir_
    /\ last' = Did("set_dbdir")
    /\ UNCHANGED <<objs, oids, uuids, dbs, project, task, writeable, settings, now,
                   dirs, files, hist, fresh>>

set_task(project_, task_) ==
    /\ project' = project_
    /\ task' = task_
    /\ last' = Did("set_task")
    /\ UNCHANGED <<objs, oids, uuids, dbs, writeable, dbdir, settings, now, dirs,
                   files, hist, fresh>>

set_writeable(writeable_) ==
    /\ writeable' = writeable_
    /\ last' = Did("set_writeable")
    /\ UNCHANGED <<objs, oids, uuids, dbs, project, task, dbdir, settings, now, dirs,
                   files, hist, fresh>>

\* A tracker() that registers a new Instance under its address only.
tracker_oids_only(obj) ==
    LET result == tracker_return(obj) IN
    /\ IF result.kind = "Instance" /\ obj \notin DOMAIN oids
       THEN /\ oids' = oids @@ (obj :> result.inst)
            /\ uuids' = uuids
       ELSE UNCHANGED <<oids, uuids>>
    /\ last' = [Did("tracker") EXCEPT !.ret = result]
    /\ UNCHANGED <<objs, dbs, project, task, writeable, dbdir, settings, now,
                   dirs, files, hist, fresh>>

tracker(obj) ==
    LET result == tracker_return(obj) IN
    /\ IF result.kind = "Instance" /\ obj \notin DOMAIN oids
       THEN /\ oids' = oids @@ (obj :> result.inst)
            /\ uuids' = uuids @@ (result.inst.uuid :> result.inst)
       ELSE UNCHANGED <<oids, uuids>>
    /\ last' = [Did("tracker") EXCEPT !.ret = result]
    /\ UNCHANGED <<objs, dbs, project, task, writeable, dbdir, settings, now,
                   dirs, files, hist, fresh>>

RECURSIVE SumLen(_, _)
SumLen(f, keys) ==
    IF keys = {} THEN 0
    ELSE LET k == CHOOSE x \in keys : TRUE
         IN  Len(f[k]) + SumLen(f, keys \ {k})

RECURSIVE CallCount(_)
CallCount(keys) ==
    IF keys = {} THEN 0
    ELSE LET k == CHOOSE x \in keys : TRUE
         IN  SumLen(hist[k].calls, DOMAIN hist[k].calls) + CallCount(keys \ {k})

\* The record calls made so far.
Recorded == CallCount(DOMAIN hist)

\* The history of database dbkey after record(ekey, entry) on it.
Called(h, ekey, entry) ==
    [h EXCEPT !.calls = IF ekey \in DOMAIN h.calls
                        THEN [h.calls EXCEPT ![ekey] = Append(@, entry)]
                        ELSE h.calls @@ (ekey :> <<entry>>)]

\* The history of a database after the save() with outcome s: a save that did
\* not try to write leaves it alone.
Attempted(h, s) ==
    IF s.error # "" THEN [h EXCEPT !.unsaved = s.error, !.retried = FALSE]
    ELSE IF s.opened THEN [h EXCEPT !.unsaved = "", !.retried = h.unsaved # ""]
    ELSE h

\* A key that leaves the task out.
dbkey_without_task == <<project, "default">>

\* dbkey = (project, task)
current_dbkey == <<project, task>>

\* record(ekey, entry) of the module: the database of (project, task), made on
\* first use, then its record and its save().
record(ekey, entry) ==
    LET dbkey == current_dbkey
        known == dbkey \in DOMAIN dbs
        made == TaskDB_init
    IN
    /\ Recorded < MaxRecords
    /\ IF ~known /\ made.raised # ""
       THEN /\ dbdir' = made.dbdir
            /\ dirs' = dirs \cup made.mkdir
            /\ last' = [Did("record") EXCEPT !.key = dbkey, !.ekey = ekey,
                            !.mkdir = made.mkdir, !.raised = made.raised]
            /\ UNCHANGED <<dbs, files, hist>>
       ELSE LET taskdb == IF known THEN dbs[dbkey] ELSE made.db
                made_dirs == IF known THEN {} ELSE made.mkdir
                h == IF known THEN hist[dbkey]
                     ELSE [NoHist EXCEPT !.loaded = made.db.entities]
                r == TaskDB_record(taskdb, ekey, entry)
                s == TaskDB_save(r.db, FALSE, dirs \cup made_dirs, files)
            IN  /\ dbdir' = IF known THEN dbdir ELSE made.dbdir
                /\ dirs' = dirs \cup made_dirs
                /\ IF r.raised # ""
                   THEN /\ dbs' = Put(dbs, dbkey, r.db)
                        /\ hist' = Put(hist, dbkey, Called(h, ekey, entry))
                        /\ files' = files
                        /\ last' = [Did("record") EXCEPT !.key = dbkey,
                                        !.ekey = ekey, !.mkdir = made_dirs,
                                        !.raised = r.raised]
                   ELSE /\ dbs' = Put(dbs, dbkey, s.db)
                        /\ hist' = Put(hist, dbkey,
                                       Attempted(Called(h, ekey, entry), s))
                        /\ files' = s.files
                        /\ last' = [Did("record") EXCEPT !.key = dbkey,
                                        !.ekey = ekey, !.mkdir = made_dirs,
                                        !.opened = IF s.opened
                                                   THEN {taskdb.dbpath} ELSE {},
                                        !.error = s.error,
                                        !.elapsed = s.elapsed]
    /\ UNCHANGED <<objs, oids, uuids, project, task, writeable, settings, now, fresh>>

\* dbs[dbkey].record(ekey, entry), called on an open database.
db_record(dbkey, ekey, entry) ==
    LET r == TaskDB_record(dbs[dbkey], ekey, entry) IN
    /\ Recorded < MaxRecords
    /\ dbs' = [dbs EXCEPT ![dbkey] = r.db]
    /\ hist' = [hist EXCEPT ![dbkey] = Called(@, ekey, entry)]
    /\ last' = [Did("TaskDB.record") EXCEPT !.key = dbkey, !.ekey = ekey,
                    !.raised = r.raised]
    /\ UNCHANGED <<objs, oids, uuids, project, task, writeable, dbdir, settings, now,
                   dirs, files, fresh>>

\* dbs[dbkey].save(force), called on an open database.
db_save(dbkey, force) ==
    LET s == TaskDB_save(dbs[dbkey], force, dirs, files) IN
    /\ dbs' = [dbs EXCEPT ![dbkey] = s.db]
    /\ files' = s.files
    /\ hist' = [hist EXCEPT ![dbkey] = Attempted(@, s)]
    /\ last' = [Did("TaskDB.save") EXCEPT !.key = dbkey, !.force = force,
                    !.opened = IF s.opened THEN {dbs[dbkey].dbpath} ELSE {},
                    !.error = s.error, !.elapsed = s.elapsed]
    /\ UNCHANGED <<objs, oids, uuids, project, task, writeable, dbdir, settings, now,
                   dirs, fresh>>

\* The loop of cleanup() over dbs.items(), taken in the order `order`: every
\* database is saved with force; one whose save() raises goes to failed, the
\* others to success.  TaskDB.save catches its own errors and raises nothing.
RECURSIVE cleanup_loop(_, _)
cleanup_loop(order, acc) ==
    IF order = <<>> THEN acc
    ELSE LET dbname == Head(order)
             s == TaskDB_save(acc.dbs[dbname], TRUE, dirs, acc.files)
         IN  cleanup_loop(Tail(order),
                 [acc EXCEPT !.dbs[dbname] = s.db,
                             !.files = s.files,
                             !.hist[dbname] = Attempted(@, s),
                             !.success = Append(@, dbname),
                             !.opened = IF s.opened
                                        THEN @ \cup {acc.dbs[dbname].dbpath}
                                        ELSE @,
                             !.errors = IF s.error # "" THEN @ \cup {dbname}
                                        ELSE @])

Orders(S) ==
    {o \in [1..Cardinality(S) -> S] : \A i, j \in DOMAIN o : i # j => o[i] # o[j]}

\* cleanup(): the loop, then one message per database of success when
\* writeable, and one error message per database of failed.
cleanup ==
    \E order \in Orders(DOMAIN dbs) :
        LET done == cleanup_loop(order,
                        [dbs |-> dbs, files |-> files, hist |-> hist,
                         success |-> <<>>,
                         failed |-> {}, opened |-> {}, errors |-> {}])
        IN  /\ dbs' = done.dbs
            /\ files' = done.files
            /\ hist' = done.hist
            /\ last' = [Did("cleanup") EXCEPT !.force = TRUE,
                            !.success = done.success, !.failed = done.failed,
                            !.opened = done.opened,
                            !.error = IF done.errors = {} THEN ""
                                      ELSE "caught",
                            !.okay = IF writeable THEN Range(done.success)
                                     ELSE {}]
            /\ UNCHANGED <<objs, oids, uuids, project, task, writeable, dbdir,
                           settings, now, dirs, fresh>>

\* TaskDB(): the constructor called directly, for the current project, task
\* and directory; the new database is not registered.
construct ==
    LET made == TaskDB_init IN
    /\ fresh' = [db |-> made.db, raised |-> made.raised]
    /\ dbdir' = made.dbdir
    /\ dirs' = dirs \cup made.mkdir
    /\ last' = [Did("TaskDB") EXCEPT !.key = <<project, task>>,
                    !.mkdir = made.mkdir, !.raised = made.raised]
    /\ UNCHANGED <<objs, oids, uuids, dbs, project, task, writeable, settings, now,
                   files, hist>>

(* The environment *)

\* The program changes object obj in place.
mutate(obj) ==
    /\ TypeOf(obj).type \in Mutable
    /\ objs' = [objs EXCEPT ![obj] = 1 - @]
    /\ last' = Did("mutate")
    /\ UNCHANGED <<oids, uuids, dbs, project, task, writeable, dbdir, settings,
                   now, dirs, files, hist, fresh>>

\* Thirty seconds pass.
tick ==
    /\ now < MaxTime
    /\ now' = now + 1
    /\ last' = Did("tick")
    /\ UNCHANGED <<objs, oids, uuids, dbs, project, task, writeable, dbdir, settings,
                   dirs, files, hist, fresh>>

\* Directory d, which was removed, is made again.
make_dir(d) ==
    /\ d \notin dirs
    /\ dirs' = dirs \cup {d}
    /\ last' = Did("mkdir")
    /\ UNCHANGED <<objs, oids, uuids, dbs, project, task, writeable, dbdir, settings,
                   now, files, hist, fresh>>

\* Directory d is removed, with the files in it.
remove_dir(d) ==
    /\ d \in dirs
    /\ dirs' = dirs \ {d}
    /\ files' = [p \in Paths |-> IF p[1] = d THEN NoFile ELSE files[p]]
    /\ last' = Did("rmdir")
    /\ UNCHANGED <<objs, oids, uuids, dbs, project, task, writeable, dbdir, settings,
                   now, hist, fresh>>

----------------------------------------------------------------------------
(* Specifications *)

\* The entries of the specifications that do not look at provenance.
Plain == Entry(None, <<StrV(1), IntV(5)>>, EmptyMap)

Returned == Entry(UuidV(1), <<>>, EmptyMap)

\* acorn.cfg names the folder and leaves the save frequency at its default.
InitFolder == Init /\ settings = [folder |-> "/d1", savefreq |-> NoOpt]

\* acorn.cfg leaves the save frequency at its default.
InitDefaultFreq == Init /\ settings.savefreq = NoOpt

\* No earlier run left a file.
InitFresh == InitFolder /\ dirs = {}

\* tracker() alone, over every kind of object, between changes to the objects
\* it has tracked.
NextTracker ==
    \/ \E o \in AllObjs : tracker(o)
    \/ \E o \in DOMAIN oids : mutate(o)

SpecTracker == InitFresh /\ [][NextTracker]_vars

\* Recording into one database and the provenance of the uuids recorded.
NextProvenance ==
    \/ \E o \in Objs : tracker(o)
    \/ \E o \in Objs \cap DOMAIN oids : mutate(o)
    \/ \E e \in UuidEntries : record("numpy.sum", e)
    \/ \E d \in DOMAIN dbs, e \in UuidEntries : db_record(d, "numpy.sum", e)

SpecProvenance == InitFresh /\ [][NextProvenance]_vars

\* Recording under several entity keys, projects and tasks, with saves and
\* cleanup in between.
NextAppend ==
    \/ \E pt \in {<<"default", "default">>, <<"p.t", "u">>} :
          set_task(pt[1], pt[2])
    \/ \E k \in EKeys, e \in {Plain, Returned} : record(k, e)
    \/ \E d \in DOMAIN dbs, k \in EKeys, e \in {Plain, Returned} :
          db_record(d, k, e)
    \/ \E d \in DOMAIN dbs, f \in BOOLEAN : db_save(d, f)
    \/ cleanup

SpecAppend == InitFolder /\ [][NextAppend]_vars

\* Recording under several projects, tasks and directories.
NextRouting ==
    \/ \E d \in Dirs : set_dbdir(d)
    \/ \E pt \in TaskPairs : set_task(pt[1], pt[2])
    \/ record("numpy.sum", Plain)
    \/ cleanup

SpecRouting == InitDefaultFreq /\ [][NextRouting]_vars

\* Recording with the directory set, unset, configured or not.
NextConfig ==
    \/ \E d \in Dirs \cup {NoDir} : set_dbdir(d)
    \/ \E pt \in {<<"default", "default">>, <<"p.t", "u">>} :
          set_task(pt[1], pt[2])
    \/ record("numpy.sum", Plain)
    \/ cleanup

SpecConfig == InitDefaultFreq /\ [][NextConfig]_vars

\* Recording entries that hold no uuid.
NextValues ==
    \/ \E o \in Objs : tracker(o)
    \/ \E e \in ValueEntries : record("numpy.sum", e)
    \/ \E d \in DOMAIN dbs, e \in ValueEntries : db_record(d, "numpy.sum", e)

SpecValues == InitFolder /\ [][NextValues]_vars

\* Saving one database: the throttle and the writeable flag.
NextSaving ==
    \/ \E d \in Dirs : set_dbdir(d)
    \/ \E w \in BOOLEAN : set_writeable(w)
    \/ record("numpy.sum", Plain)
    \/ \E d \in DOMAIN dbs, f \in BOOLEAN : db_save(d, f)
    \/ cleanup
    \/ tick
    \/ \E d \in Dirs : remove_dir(d)

SpecSaving == Init /\ [][NextSaving]_vars

\* Shutdown with several databases open and directories that go away.
NextShutdown ==
    \/ \E d \in Dirs : set_dbdir(d)
    \/ \E pt \in {<<"default", "default">>, <<"p.t", "u">>} :
          set_task(pt[1], pt[2])
    \/ \E w \in BOOLEAN : set_writeable(w)
    \/ record("numpy.sum", Plain)
    \/ cleanup
    \/ \E d \in Dirs : remove_dir(d)

SpecShutdown == InitFolder /\ [][NextShutdown]_vars

\* Saving while directories come and go and while the database holds what
\* json cannot write.
NextFaults ==
    \/ tracker(2)
    \/ \E e \in {Plain, Returned} : record("numpy.sum", e)
    \/ \E d \in DOMAIN dbs, f \in BOOLEAN : db_save(d, f)
    \/ cleanup
    \/ tick
    \/ remove_dir("/d1")
    \/ make_dir("/d1")

SpecFaults == InitFresh /\ [][NextFaults]_vars

\* Saving a database and building a new one on its file.
NextRoundTrip ==
    \/ \E o \in Objs : tracker(o)
    \/ \E e \in {Plain, Returned} : record("numpy.sum", e)
    \/ \E d \in DOMAIN dbs : db_save(d, TRUE)
    \/ construct

SpecRoundTrip == InitFolder /\ [][NextRoundTrip]_vars

----------------------------------------------------------------------------
(* Claims *)

\* What load() installed under ekey when database dbkey was built, and the
\* entries recorded under ekey since, in call order.
LoadedOf(dbkey, ekey) ==
    IF ekey \in DOMAIN hist[dbkey].loaded THEN hist[dbkey].loaded[ekey] ELSE <<>>

CallsOf(dbkey, ekey) ==
    IF ekey \in DOMAIN hist[dbkey].calls THEN hist[dbkey].calls[ekey] ELSE <<>>

\* C1 as stated: after N calls record(k, e_1) .. record(k, e_N) on a database,
\* entities[k] is exactly e_1 .. e_N.
C1_AsStated ==
    \A d \in DOMAIN dbs : \A k \in DOMAIN hist[d].calls :
        dbs[d].entities[k] = hist[d].calls[k]

\* C1, amended: in every open database, entities[k] is the list load() installed
\* for k when the database was built, followed by the entries of the record
\* calls for k in call order, whatever records for other keys, saves and
\* cleanups came in between; and no key exists that was neither loaded nor
\* recorded.
C1_AppendOnly ==
    \A d \in DOMAIN dbs :
        /\ DOMAIN dbs[d].entities =
              DOMAIN hist[d].loaded \cup DOMAIN hist[d].calls
        /\ \A k \in DOMAIN dbs[d].entities :
              dbs[d].entities[k] = LoadedOf(d, k) \o CallsOf(d, k)

\* C1's case: a database built over a file with entries for k, then two
\* different entries recorded for k and one for another key, then a cleanup.
C1_Witness ==
    /\ last.op = "cleanup"
    /\ \E d \in DOMAIN dbs : \E k, k2 \in DOMAIN hist[d].calls :
          /\ k # k2
          /\ LoadedOf(d, k) # <<>>
          /\ Len(hist[d].calls[k]) = 2
          /\ hist[d].calls[k][1] # hist[d].calls[k][2]

\* The entry of the record call that last is about.
LastEntry ==
    LET calls == hist[last.key].calls[last.ekey] IN calls[Len(calls)]

Recording == last.op \in {"record", "TaskDB.record"} /\ last.raised = ""

\* The texts among the arguments of an entry: the positional ones, and the
\* named ones without the reserved key "__".
ArgTexts(entry) ==
    {x \in Range(entry.args["__"]) : IsStr(x)}
    \cup {entry.args[n] : n \in {m \in DOMAIN entry.args :
                                    m # "__" /\ IsStr(entry.args[m])}}

\* C2 as stated: after TaskDB.record of an entry with an argument, positional
\* or named, that is the uuid string of an Instance of the process-wide index
\* uuids, the database's own uuids holds a description under that uuid.
C2_ArgumentProvenance ==
    Recording =>
        \A x \in ArgTexts(LastEntry) :
            ParsesAsUUID(x) /\ x.v \in DOMAIN uuids
                => x.v \in DOMAIN dbs[last.key].uuids

\* The uuids of database dbkey when a record call on it begins: those of the
\* open database, or those the constructor loads.
UuidsBefore(dbkey) ==
    IF dbkey \in DOMAIN dbs THEN dbs[dbkey].uuids ELSE TaskDB_init.db.uuids

\* C3: a record call whose entry returns the uuid string of an Instance of the
\* process-wide index leaves that uuid in the database's uuids with the
\* Instance's description; when the uuid is not in the process-wide index, the
\* database's uuids are what they were and the entry is still appended.
C3_ReturnProvenance ==
    [][ (last'.op \in {"record", "TaskDB.record"} /\ last'.raised = ""
         /\ LastEntry'.returns.k = "uuid")
        => LET u == LastEntry'.returns.v
               db == dbs'[last'.key]
               before == UuidsBefore(last'.key)
           IN  /\ u \in DOMAIN uuids
                    => /\ u \in DOMAIN db.uuids
                       /\ u \notin DOMAIN before
                            => db.uuids[u] = describe(uuids[u])
                       /\ u \in DOMAIN before => db.uuids[u] = before[u]
               /\ u \notin DOMAIN uuids
                    => /\ db.uuids = before
                       /\ db.entities[last'.ekey] # <<>>
                       /\ db.entities[last'.ekey][Len(db.entities[last'.ekey])]
                             = LastEntry' ]_vars

\* C3's case: an entry returning the uuid of a tracked Instance has just been
\* recorded and the Instance described, after an entry returning a uuid the
\* process never minted.
C3_Witness ==
    /\ Recording
    /\ LastEntry.returns = UuidV(1)
    /\ 1 \in DOMAIN uuids
    /\ 1 \in DOMAIN dbs[last.key].uuids
    /\ dbs[last.key].uuids[1] = describe(uuids[1])
    /\ \E i \in DOMAIN hist[last.key].calls[last.ekey] :
          hist[last.key].calls[last.ekey][i].returns = UuidV(0)

\* A save() without force: the one called on a database, or the one at the end
\* of record() on a database that was already open.
Unforced(dbkey) ==
    /\ last'.key = dbkey
    /\ \/ last'.op = "TaskDB.save" /\ ~last'.force
       \/ last'.op = "record" /\ last'.raised = ""

\* C4: with savefreq = F minutes, a save() without force made F minutes or less
\* after lastsave writes nothing and leaves lastsave alone; one that does write
\* (the flag being true) sets lastsave to the time of the write, so of two such
\* saves within F minutes of each other only the first can write; and the first
\* save of a database, which has no lastsave yet, is due whatever the time.
C4_Throttle ==
    [][ /\ \A d \in DOMAIN dbs :
              Unforced(d) =>
                /\ (dbs[d].lastsave # NoTime
                    /\ (now - dbs[d].lastsave) * 30 <= _get_option(2) * 60)
                     => /\ last'.opened = {}
                        /\ files' = files
                        /\ dbs'[d].lastsave = dbs[d].lastsave
                /\ last'.opened # {} => dbs'[d].lastsave = now
        /\ (/\ last'.op = "record" /\ last'.raised = ""
            /\ last'.key \notin DOMAIN dbs) =>
                /\ dbs'[last'.key].lastsave = now
                /\ writeable => last'.opened = {dbs'[last'.key].dbpath} ]_vars

\* C4's case: the flag is true, time has passed since the last save but no more
\* than savefreq minutes, and a save() without force has just written nothing.
C4_Witness ==
    /\ last.op = "TaskDB.save" /\ ~last.force
    /\ writeable
    /\ last.opened = {}
    /\ dbs[last.key].lastsave # NoTime
    /\ now > dbs[last.key].lastsave
    /\ (now - dbs[last.key].lastsave) * 30 = _get_option(2) * 60

\* C5: after save(force=True), called on a database or by cleanup() on every
\* open one, lastsave is the current time; with the writeable flag true the
\* write was attempted (the file was opened for writing, or open() failed for
\* want of the directory), whatever time had passed since the last save, and
\* with the flag false nothing was written.
C5_ForcedSave ==
    /\ (last.op = "TaskDB.save" /\ last.force) =>
            LET db == dbs[last.key] IN
            /\ db.lastsave = now
            /\ writeable => \/ last.opened = {db.dbpath}
                            \/ last.error = "IOError" /\ db.dbpath[1] \notin dirs
            /\ ~writeable => last.opened = {} /\ last.error = ""
    /\ last.op = "cleanup" =>
            /\ \A d \in DOMAIN dbs :
                  /\ dbs[d].lastsave = now
                  /\ writeable => \/ dbs[d].dbpath \in last.opened
                                  \/ dbs[d].dbpath[1] \notin dirs
            /\ ~writeable => last.opened = {}

\* C5's case: a forced save has just written although the time since the last
\* save was within the throttle.
C5_Witness ==
    /\ last.op = "TaskDB.save" /\ last.force
    /\ writeable
    /\ last.elapsed <= _get_option(2)
    /\ last.opened = {dbs[last.key].dbpath}

\* C6 as stated: while the writeable flag is false, record and save calls write
\* nothing to the file system.
C6_WritableGating ==
    (last.op \in {"record", "TaskDB.record", "TaskDB.save"} /\ ~writeable)
        => last.opened = {} /\ last.mkdir = {}

\* C7 as stated: save(force=True) with the flag true, then a new TaskDB on the
\* same path, gives entities and uuids equal to those of the saved database.
C7_RoundTrip ==
    [][ (/\ last.op = "TaskDB.save" /\ last.force /\ writeable
         /\ last'.op = "TaskDB"
         /\ fresh'.db.dbpath = dbs[last.key].dbpath)
        => /\ fresh'.raised = ""
           /\ fresh'.db.entities = dbs[last.key].entities
           /\ fresh'.db.uuids = dbs[last.key].uuids ]_vars

\* C8 as stated: after cleanup() with two open databases, one in a directory
\* that is gone and one in a directory that exists, the second was written and
\* is reported as a success, and the first is reported as a failure and not as
\* a success.
C8_ShutdownReporting ==
    (last.op = "cleanup" /\ writeable) =>
        \A broken, other \in DOMAIN dbs :
            (dbs[broken].dbpath[1] \notin dirs /\ dbs[other].dbpath[1] \in dirs)
                => /\ dbs[other].dbpath \in last.opened
                   /\ other \in last.okay
                   /\ broken \in last.failed
                   /\ broken \notin last.okay

\* C9: in every step, an object that has an Instance keeps it; a tracker()
\* call that returns an Instance for an object that has one returns that very
\* Instance and adds nothing to oids or uuids; and no two objects of oids have
\* the same Instance or the same uuid.
C9_IdentityStability ==
    [][ /\ \A o \in DOMAIN oids : o \in DOMAIN oids' /\ oids'[o] = oids[o]
        /\ \A o \in DOMAIN oids :
              (tracker(o) /\ last'.ret.kind = "Instance")
                  => /\ last'.ret.inst = oids[o]
                     /\ oids' = oids
                     /\ uuids' = uuids
        /\ \A o1, o2 \in DOMAIN oids' :
              o1 # o2 => /\ oids'[o1] # oids'[o2]
                         /\ oids'[o1].uuid # oids'[o2].uuid ]_vars

\* C9's case: two objects have Instances, and tracker() has just returned the
\* Instance of the one tracked first.
C9_Witness ==
    /\ last.op = "tracker"
    /\ last.ret.kind = "Instance"
    /\ Cardinality(DOMAIN oids) >= 2
    /\ last.ret.inst.uuid = 1
    /\ oids[last.ret.inst.pid] = last.ret.inst

\* The entities of database dbkey when a record call on it begins.
EntitiesBefore(dbkey) ==
    IF dbkey \in DOMAIN dbs THEN dbs[dbkey].entities ELSE TaskDB_init.db.entities

\* C10: record(ekey, entry) of the module touches only the database registered
\* under the current (project, task): it registers one built on
\* <dbdir>/<project>.<task>.json when none is open, reuses the open one
\* otherwise, and appends the entry to it; every other open database is left as
\* it was; and no step, set_task and set_dbdir included, changes the dbpath of
\* an open database, while set_task and set_dbdir change no database at all.
C10_Routing ==
    [][ /\ \A d \in DOMAIN dbs :
              d \in DOMAIN dbs' /\ dbs'[d].dbpath = dbs[d].dbpath
        /\ last'.op \in {"set_task", "set_dbdir"} => dbs' = dbs
        /\ (last'.op = "record" /\ last'.raised = "") =>
              LET key == <<project, task>>
                  before == EntitiesBefore(key)
                  old == IF last'.ekey \in DOMAIN before
                         THEN before[last'.ekey] ELSE <<>>
              IN  /\ DOMAIN dbs' = DOMAIN dbs \cup {key}
                  /\ \A d \in DOMAIN dbs \ {key} : dbs'[d] = dbs[d]
                  /\ dbs'[key].entities[last'.ekey] = Append(old, LastEntry')
                  /\ \A k \in DOMAIN before \ {last'.ekey} :
                        dbs'[key].entities[k] = before[k]
                  /\ key \notin DOMAIN dbs =>
                        dbs'[key].dbpath =
                            <<IF dbdir # NoDir THEN dbdir ELSE settings.folder,
                              project \o "." \o task \o ".json">> ]_vars

\* C10's case: two databases are open in different directories, and record()
\* has just reused the one of the current project and task for a second entry.
C10_Witness ==
    /\ last.op = "record" /\ last.raised = ""
    /\ last.key = <<project, task>>
    /\ Len(hist[last.key].calls[last.ekey]) >= 2
    /\ \E d \in DOMAIN dbs :
          d # last.key /\ dbs[d].dbpath[1] # dbs[last.key].dbpath[1]
    /\ dbdir # dbs[last.key].dbpath[1]

\* C11: a record() of the module made while dbdir is None and acorn.cfg names
\* no folder, for a (project, task) that has no open database, raises ValueError
\* to its caller and leaves the registry as it was: no database is registered,
\* no entry is stored, and no directory or file is made.
C11_ConfigurationError ==
    [][ (/\ last'.op = "record"
         /\ dbdir = NoDir /\ settings.folder = NoDir
         /\ <<project, task>> \notin DOMAIN dbs)
        => /\ last'.raised = "ValueError"
           /\ dbs' = dbs
           /\ dirs' = dirs /\ files' = files
           /\ dbdir' = NoDir ]_vars

\* C11's case: a database is open, dbdir was set back to None, no folder is
\* configured, and a record() for another task has just raised ValueError.
C11_Witness ==
    /\ last.op = "record" /\ last.raised = "ValueError"
    /\ dbdir = NoDir /\ settings.folder = NoDir
    /\ dbs # EmptyMap
    /\ <<project, task>> \notin DOMAIN dbs

\* The database record() works on: the open one, or the one it builds.
TaskDBBefore(dbkey) == IF dbkey \in DOMAIN dbs THEN dbs[dbkey] ELSE TaskDB_init.db

\* C12: when the write inside save() fails, on open() or in json.dump, no
\* exception reaches the caller of save(), of record() or of cleanup(), cleanup()
\* counts no database as failed, and entities and uuids of the database are
\* what they were when the save began (in record(): what TaskDB.record left).
C12_ErrorsContained ==
    [][ last'.error # "" =>
          /\ last'.raised = ""
          /\ last'.op = "TaskDB.save" =>
                /\ dbs'[last'.key].entities = dbs[last'.key].entities
                /\ dbs'[last'.key].uuids = dbs[last'.key].uuids
          /\ last'.op = "record" =>
                LET r == TaskDB_record(TaskDBBefore(last'.key), last'.ekey,
                                       LastEntry')
                IN  /\ dbs'[last'.key].entities = r.db.entities
                    /\ dbs'[last'.key].uuids = r.db.uuids
          /\ last'.op = "cleanup" =>
                /\ last'.failed = {}
                /\ DOMAIN dbs' = DOMAIN dbs
                /\ \A d \in DOMAIN dbs :
                      /\ dbs'[d].entities = dbs[d].entities
                      /\ dbs'[d].uuids = dbs[d].uuids ]_vars

\* C12's case: the save() at the end of a record() has just failed in json.dump
\* on a database that holds two entries and a description.
C12_Witness ==
    /\ last.op = "record" /\ last.error = "TypeError"
    /\ Len(dbs[last.key].entities[last.ekey]) >= 2
    /\ dbs[last.key].uuids # EmptyMap
    /\ files[dbs[last.key].dbpath] = PartialFile

\* C13 as stated: cleanup() changes neither the registry nor the entities and
\* uuids of any open database; with the writeable flag true and no write
\* failure it leaves the file of every open database holding that database's
\* entities and uuids; and a cleanup() that follows a cleanup() leaves every
\* file as it was.
C13_CleanupRepeatable ==
    [][ last'.op = "cleanup" =>
          /\ DOMAIN dbs' = DOMAIN dbs
          /\ \A d \in DOMAIN dbs :
                /\ dbs'[d].entities = dbs[d].entities
                /\ dbs'[d].uuids = dbs[d].uuids
          /\ (writeable /\ last'.error = "") =>
                \A d \in DOMAIN dbs :
                    files'[dbs[d].dbpath]
                        = JsonFile(dbs[d].entities, dbs[d].uuids)
          /\ (writeable /\ last'.error = "" /\ last.op = "cleanup"
              /\ last.error = "")
                => files' = files ]_vars

\* C14: after every step the two indices hold the same Instances: oids[i.pid]
\* is i and uuids[i.uuid] is i for every Instance i of either index, so they
\* have the same number of entries; and no step removes an entry from either.
C14_IndexAgreement ==
    [][ /\ \A o \in DOMAIN oids' :
              /\ oids'[o].pid = o
              /\ oids'[o].uuid \in DOMAIN uuids'
              /\ uuids'[oids'[o].uuid] = oids'[o]
        /\ \A u \in DOMAIN uuids' :
              /\ uuids'[u].uuid = u
              /\ uuids'[u].pid \in DOMAIN oids'
              /\ oids'[uuids'[u].pid] = uuids'[u]
        /\ Cardinality(DOMAIN oids') = Cardinality(DOMAIN uuids')
        /\ DOMAIN oids \subseteq DOMAIN oids'
        /\ DOMAIN uuids \subseteq DOMAIN uuids' ]_vars

\* C14's case: tracker() has just made the third Instance, after one of the
\* tracked objects was changed in place.
C14_Witness ==
    /\ last.op = "tracker" /\ last.ret.kind = "Instance"
    /\ last.ret.inst.uuid = 3
    /\ Cardinality(DOMAIN oids) = 3
    /\ \E o \in DOMAIN oids : objs[o] = 1

\* C15: a description stored in the uuids of an open database stays as it is
\* in every step; in particular a record call on a database that has a
\* description for the uuid it returns or passes keeps that description, also
\* when describe() would now give another one.
C15_DescribeOnce ==
    [][ /\ \A d \in DOMAIN dbs : \A u \in DOMAIN dbs[d].uuids :
              /\ d \in DOMAIN dbs'
              /\ u \in DOMAIN dbs'[d].uuids
              /\ dbs'[d].uuids[u] = dbs[d].uuids[u]
        /\ (last'.op \in {"record", "TaskDB.record"} /\ last'.raised = "") =>
              \A u \in DOMAIN UuidsBefore(last'.key) :
                  dbs'[last'.key].uuids[u] = UuidsBefore(last'.key)[u] ]_vars

\* C15's case: a record call returning uuid 1 has just been made on a database
\* that had described uuid 1 at an earlier call, and the object has been
\* changed since, so that describe() now gives another description.
C15_Witness ==
    /\ Recording
    /\ LastEntry.returns = UuidV(1)
    /\ 1 \in DOMAIN uuids
    /\ 1 \in DOMAIN dbs[last.key].uuids
    /\ dbs[last.key].uuids[1] # describe(uuids[1])
    /\ \E i \in 1..(Len(hist[last.key].calls[last.ekey]) - 1) :
          hist[last.key].calls[last.ekey][i].returns = UuidV(1)

\* C16 as stated: a record call with an entry of ValueEntries raises nothing,
\* appends the entry and leaves the uuids of the database as they were; and
\* record() of the module goes on to call save().
C16_ValuesHarmless ==
    [][ (last'.op \in {"record", "TaskDB.record"} /\ LastEntry' \in ValueEntries)
        => LET before == EntitiesBefore(last'.key)
               old == IF last'.ekey \in DOMAIN before
                      THEN before[last'.ekey] ELSE <<>>
           IN  /\ last'.raised = ""
               /\ dbs'[last'.key].entities[last'.ekey]
                     = Append(old, LastEntry')
               /\ dbs'[last'.key].uuids = UuidsBefore(last'.key)
               /\ last'.op = "record" => last'.elapsed # NoTime ]_vars

\* A save() of database dbkey is made in the step: by save() itself with the
\* given force, by record() of the module without force, or by cleanup() with
\* force.
Saves(dbkey, force) ==
    \/ last'.op = "TaskDB.save" /\ last'.key = dbkey /\ last'.force = force
    \/ last'.op = "record" /\ last'.key = dbkey /\ last'.raised = "" /\ ~force
    \/ last'.op = "cleanup" /\ force

\* C17: when the latest write of an open database failed, a later save() of it
\* that is forced, or made more than savefreq minutes after the failed one,
\* writes the database as it then is, provided the flag is true, the directory
\* exists and json can write what the database holds.
C17_RetryAfterFailure ==
    [][ \A d \in DOMAIN dbs : \A f \in BOOLEAN :
          (/\ hist[d].unsaved # ""
           /\ Saves(d, f)
           /\ f \/ elapsed_minutes(now, dbs[d].lastsave) > _get_option(2)
           /\ writeable
           /\ dbs[d].dbpath[1] \in dirs
           /\ json_serializable(dbs'[d].entities, dbs'[d].uuids))
          => /\ files'[dbs[d].dbpath]
                   = JsonFile(dbs'[d].entities, dbs'[d].uuids)
             /\ dbs[d].dbpath \in last'.opened
             /\ hist'[d].unsaved = ""
             /\ dbs'[d].lastsave = now ]_vars

\* C17's case: a write failed for want of the directory, the directory is
\* back, time has passed, and a save() without force has just written what
\* the database holds.
C17_Witness ==
    /\ last.op = "TaskDB.save" /\ ~last.force
    /\ last.opened # {}
    /\ hist[last.key].retried
    /\ dbs[last.key].entities # EmptyMap
    /\ files[dbs[last.key].dbpath]
          = JsonFile(dbs[last.key].entities, dbs[last.key].uuids)

\* C18 as stated: tracker() of a named function or of a bound method returns
\* its __name__, tracker() of an anonymous function returns "lambda (" and
\* its parameters, tracker() of a type returns the type's name, and none of
\* these calls adds to oids or uuids.
C18_FunctionLabels ==
    [][ \A o \in AllObjs :
          (tracker(o) /\ TypeOf(o).type \in {"function", "instancemethod", "type"})
          => LET t == TypeOf(o) IN
             /\ last'.ret.kind = "text"
             /\ (t.type = "function" /\ t.name = "<lambda>")
                    => last'.ret.text
                         = "lambda (" \o join(", ", t.varnames) \o ")"
             /\ ~(t.type = "function" /\ t.name = "<lambda>")
                    => last'.ret.text = t.name
             /\ oids' = oids
             /\ uuids' = uuids ]_vars

\* C19 as stated: tracker() of a list, tuple, set or dict whose elements are
\* all numbers or texts returns "<type> len=<n> min=<min> max=<max>", or
\* "<type> len=0" when it is empty, with the name of the type for <type>, and
\* leaves oids and uuids as they were; tracker() of one with another kind of
\* element returns an Instance.
C19_SemiTrackedSummary ==
    [][ \A o \in AllObjs :
          (tracker(o) /\ TypeOf(o).type \in semitrack)
          => LET t == TypeOf(o) IN
             /\ (t.allprim /\ Len(t.elems) > 0) =>
                   /\ last'.ret.kind = "text"
                   /\ last'.ret.text
                         = t.type \o " len=" \o ToString(Len(t.elems))
                           \o " min=" \o ToString(min(t.elems))
                           \o " max=" \o ToString(max(t.elems))
                   /\ oids' = oids /\ uuids' = uuids
             /\ (t.allprim /\ Len(t.elems) = 0) =>
                   /\ last'.ret.kind = "text"
                   /\ last'.ret.text = t.type \o " len=0"
                   /\ oids' = oids /\ uuids' = uuids
             /\ ~t.allprim => last'.ret.kind = "Instance" ]_vars

\* C20 as stated: a save() whose write fails leaves every file as it was, so
\* the file still holds what the last successful save wrote; and a TaskDB
\* built afterwards on a path that has a file loads it without error.
C20_AtomicFlush ==
    [][ /\ (last'.op \in {"TaskDB.save", "record", "cleanup"}
            /\ last'.error # "") => files' = files
        /\ last'.op = "TaskDB" => fresh'.raised = "" ]_vars

\* C21 as stated: two databases open under different (project, task) keys in
\* the same directory have different dbpath values.
C21_OneFilePerDatabase ==
    \A d1, d2 \in DOMAIN dbs :
        (d1 # d2 /\ dbs[d1].dbpath[1] = dbs[d2].dbpath[1])
            => dbs[d1].dbpath # dbs[d2].dbpath

IsPrefix(seq1, seq2) ==
    /\ Len(seq1) <= Len(seq2)
    /\ \A i \in 1..Len(seq1) : seq1[i] = seq2[i]

\* C22 as stated: a database built by record() starts with the entries of its
\* file, and in no step does the list a file holds for an entity key get
\* shorter or change: after the step the file holds, for each key it held, the
\* entries it held followed by the new ones.
C22_HistorySurvives ==
    [][ /\ (last'.op = "record" /\ last'.raised = ""
            /\ last'.key \notin DOMAIN dbs
            /\ files[dbs'[last'.key].dbpath].st = "json")
              => \A k \in DOMAIN files[dbs'[last'.key].dbpath].entities :
                    /\ k \in DOMAIN dbs'[last'.key].entities
                    /\ IsPrefix(files[dbs'[last'.key].dbpath].entities[k],
                                dbs'[last'.key].entities[k])
        /\ \A p \in Paths :
              files[p].st = "json"
                => /\ files'[p].st = "json"
                   /\ \A k \in DOMAIN files[p].entities :
                         /\ k \in DOMAIN files'[p].entities
                         /\ IsPrefix(files[p].entities[k],
                                     files'[p].entities[k]) ]_vars

====
